---------------------------- MODULE Spec2Model ----------------------------
(***************************************************************************)
(* Model of the Bootloader facade of libaktualizr                          *)
(* (src/libaktualizr/bootloader/bootloader.cc).                            *)
(*                                                                         *)
(* The facade has two halves:                                              *)
(*   - the rollback dispatch (setBootOK, updateNotify, installNotify),     *)
(*     which turns lifecycle events into shell commands chosen by          *)
(*     config_.rollback_mode;                                              *)
(*   - the reboot detection protocol (rebootDetected, rebootFlagSet,       *)
(*     rebootFlagClear, reboot), which keeps a durable flag in storage and *)
(*     a sentinel file on the filesystem.                                  *)
(*                                                                         *)
(* Every call is one action, except rebootFlagSet and rebootFlagClear,     *)
(* which are split at the point between their two writes so that a crash   *)
(* of the process can fall there.  Strings are sequences of one-character  *)
(* strings.                                                                *)
(***************************************************************************)
EXTENDS Integers, Sequences, FiniteSets, TLC

(***************************************************************************)
(* Bounds of the model.                                                    *)
(***************************************************************************)
\* firmware versions are "2.0" .. "2.<MaxVer>"
MaxVer == 1

VARIABLES
  rollback_mode,            \* config_.rollback_mode
  reboot_detect_supported,  \* Bootloader::reboot_detect_supported_
  need_reboot,              \* the flag behind storage_.{load,store,clear}NeedReboot
  sentinel_exists,          \* whether the file reboot_sentinel_ exists
  pc,                       \* position of the running call
  op,                       \* the last call made on the facade
  input,                    \* the inputs of the last call
  ret,                      \* value returned by the last rebootDetected
  raised,                   \* whether the last call threw NotImplementedException
  shell_log,                \* commands given to Utils::shell by the last call, in order
  warnings,                 \* LOG_WARNING / LOG_ERROR lines of the last call, in order
  os_log,                   \* setuid / sync / system calls of the last call, in order
  pre,                      \* flag and sentinel when the last call started
  hist                      \* history of the protocol, read by the properties only:
                            \*   trip      how far the round trip set, boundary crossing,
                            \*             clear has come: "none", "set", "crossed", "cleared"
                            \*   fault     "set" / "clear" when the state is the one a crash
                            \*             between the two writes of that call left, else "none"
                            \*   fault_pre the flag when the interrupted call started
                            \*   applied   rebootFlagSet has stored the flag
                            \*   observed  rebootDetected has returned true since that store
                            \*   cleared   rebootFlagClear has cleared the flag since that store
                            \*   crossed   the last call that wrote or removed the sentinel file
                            \*             was a simulated reboot
                            \*   sticky    "once" / "again" when rebootDetected has returned true
                            \*             once / more than once and neither rebootFlagSet nor
                            \*             rebootFlagClear was called nor the process restarted
                            \*             since, else "no"

vars == <<rollback_mode, reboot_detect_supported, need_reboot, sentinel_exists, pc,
          op, input, ret, raised, shell_log, warnings, os_log, pre, hist>>

(***************************************************************************)
(* Rollback modes: the four enumerators the switches name, and a value of  *)
(* the enum that is none of them (reaches the default label).              *)
(***************************************************************************)
kBootloaderNone == "kBootloaderNone"
kUbootGeneric == "kUbootGeneric"
kUbootMasked == "kUbootMasked"
kFioVB == "kFioVB"
kUnrecognized == "kUnrecognized"

RecognizedModes == {kBootloaderNone, kUbootGeneric, kUbootMasked, kFioVB}
RollbackMode == RecognizedModes \cup {kUnrecognized}

(***************************************************************************)
(* Strings.                                                                *)
(***************************************************************************)
version_flag == <<"b","o","o","t","f","i","r","m","w","a","r","e","_",
                  "v","e","r","s","i","o","n">>

Digit(n) == <<"0","1","2","3","4","5","6","7","8","9">>[n + 1]

Versions == { <<"2", ".", Digit(n)>> : n \in 0..MaxVer }

\* a line "bootfirmware_version=<v>"
Keyed(v) == version_flag \o <<"=">> \o v

\* what the version file of a target may hold: nothing, the key alone, a bare
\* version, the key and a version, and the same inside a longer text
FileContents ==
  {<<>>, version_flag, <<"2", ".", "0">>, <<"#">> \o Keyed(<<"2", ".", "0">>) \o <<"\n">>}
    \cup { Keyed(v) : v \in Versions }

\* the version file of a target: missing (the open fails), or there with a content
VersionFiles ==
  {[exists |-> FALSE, content |-> <<>>]}
    \cup { [exists |-> TRUE, content |-> c] : c \in FileContents }

\* what the printenv command may write to its output
ShellOutputs == {<<>>, Keyed(<<"2", ".", "0">>) \o <<"\n">>} \cup Versions

\* exit statuses of a command: success and failure
Statuses == {0, 1}

\* std::string::npos
npos == 0

\* std::string::find: the first position (from 1) where pat occurs in s, or npos
Find(s, pat) ==
  LET hits == { i \in 1..(Len(s) + 1 - Len(pat)) : SubSeq(s, i, i + Len(pat) - 1) = pat }
  IN  IF hits = {} THEN npos ELSE CHOOSE i \in hits : \A j \in hits : i <= j

\* std::string::erase(i, n): drop the n characters from position i (fewer at the end)
Erase(s, i, n) ==
  LET rest == IF i + n > Len(s) THEN <<>> ELSE SubSeq(s, i + n, Len(s))
  IN  (IF i = 1 THEN <<>> ELSE SubSeq(s, 1, i - 1)) \o rest

\* std::ifstream + istreambuf_iterator: the content, or nothing when the open fails
ReadFile(version_file) == IF version_file.exists THEN version_file.content ELSE <<>>

\* variant: only the key is erased, the character after it stays
TargetFirmwareVer_keeps_separator(version_file) ==
  LET target_firmware_ver == ReadFile(version_file)
      i == Find(target_firmware_ver, version_flag)
  IN  IF i # npos THEN Erase(target_firmware_ver, i, Len(version_flag))
      ELSE target_firmware_ver

\* the firmware version of the target, as installNotify computes it
TargetFirmwareVer(version_file) ==
  LET target_firmware_ver == ReadFile(version_file)
      i == Find(target_firmware_ver, version_flag)
  IN  IF i # npos THEN Erase(target_firmware_ver, i, Len(version_flag) + 1)
      ELSE target_firmware_ver

(***************************************************************************)
(* The decision tables of the rollback dispatch: for each mode, the        *)
(* commands of the call in order, each with the warning logged when the    *)
(* command returns non-zero.                                               *)
(***************************************************************************)
SetBootOKSteps(mode) ==
  CASE mode = kBootloaderNone -> <<>>
    [] mode = kUbootGeneric ->
         << <<"fw_setenv bootcount 0", "Failed resetting bootcount">> >>
    [] mode = kUbootMasked ->
         << <<"fw_setenv bootcount 0", "Failed resetting bootcount">>,
            <<"fw_setenv upgrade_available 0", "Failed resetting upgrade_available for u-boot">> >>
    [] mode = kFioVB ->
         << <<"fiovb_setenv bootcount 0", "Failed resetting bootcount">>,
            <<"fiovb_setenv upgrade_available 0", "Failed resetting upgrade_available">> >>

\* variant: the table of setBootOK with the rollback reset added, so that
\* upgrade_available is cleared instead of set
UpdateNotifySteps_clears_upgrade(mode) ==
  IF mode = kBootloaderNone THEN <<>>
  ELSE SetBootOKSteps(mode) \o
         << <<IF mode = kFioVB THEN "fiovb_setenv rollback 0" ELSE "fw_setenv rollback 0",
              "Failed resetting rollback flag">> >>

UpdateNotifySteps(mode) ==
  CASE mode = kBootloaderNone -> <<>>
    [] mode = kUbootGeneric ->
         << <<"fw_setenv bootcount 0", "Failed resetting bootcount">>,
            <<"fw_setenv rollback 0", "Failed resetting rollback flag">> >>
    [] mode = kUbootMasked ->
         << <<"fw_setenv bootcount 0", "Failed resetting bootcount">>,
            <<"fw_setenv upgrade_available 1", "Failed setting upgrade_available for u-boot">>,
            <<"fw_setenv rollback 0", "Failed resetting rollback flag">> >>
    [] mode = kFioVB ->
         << <<"fiovb_setenv bootcount 0", "Failed resetting bootcount">>,
            <<"fiovb_setenv upgrade_available 1", "Failed setting upgrade_available">>,
            <<"fiovb_setenv rollback 0", "Failed resetting rollback flag">> >>

\* the printenv and setenv steps of installNotify; none for the modes that only break
InstallNotifySteps(mode) ==
  CASE mode = kUbootMasked ->
         << <<"fw_printenv bootfirmware_version", "Failed getting bootfirmware_version for u-boot">>,
            <<"fw_setenv bootupgrade_available 1", "Failed setting bootupgrade_available for u-boot">> >>
    [] mode = kFioVB ->
         << <<"fiovb_printenv bootfirmware_version", "Failed getting bootfirmware_version for u-boot">>,
            <<"fiovb_setenv bootupgrade_available 1", "Failed to set bootupgrade_available">> >>
    [] OTHER -> <<>>

\* the commands of the steps, in order
Commands(steps) == [i \in 1..Len(steps) |-> steps[i][1]]

\* the warnings of the steps whose command returned non-zero, in order
RECURSIVE Failed(_, _, _)
Failed(steps, st, i) ==
  IF i > Len(steps) THEN <<>>
  ELSE (IF st[i] # 0 THEN <<steps[i][2]>> ELSE <<>>) \o Failed(steps, st, i + 1)

(***************************************************************************)
(* What a call leaves for its caller to see.                               *)
(***************************************************************************)
Snapshot == [need_reboot |-> need_reboot, sentinel_exists |-> sentinel_exists]

Returns(o, in, r, ex, sh, w, os) ==
  /\ op' = o
  /\ input' = in
  /\ ret' = r
  /\ raised' = ex
  /\ shell_log' = sh
  /\ warnings' = w
  /\ os_log' = os
  /\ pre' = Snapshot

NoInput == <<>>

(***************************************************************************)
(* Bootloader::Bootloader: the process starts (for the first time, after   *)
(* an exit, or after a crash in the middle of a call) and constructs the   *)
(* facade on the storage and filesystem as they are.                       *)
(***************************************************************************)
Bootloader(createSecureDirectory) ==
  /\ reboot_detect_supported' = createSecureDirectory
  /\ pc' = "idle"
  /\ Returns("Bootloader", NoInput, FALSE, FALSE, <<>>,
             IF createSecureDirectory THEN <<>>
             ELSE <<"Could not create securely, reboot detection support disabled">>,
             <<>>)
  /\ hist' = [hist EXCEPT
                !.fault = CASE pc = "rebootFlagSet_store" -> "set"
                            [] pc = "rebootFlagClear_remove" -> "clear"
                            [] OTHER -> @,
                !.fault_pre = IF pc = "idle" THEN @ ELSE pre.need_reboot,
                !.trip = IF pc = "idle" THEN @ ELSE "none",
                !.sticky = "no"]
  /\ UNCHANGED <<rollback_mode, need_reboot, sentinel_exists>>

(***************************************************************************)
(* Bootloader::setBootOK                                                   *)
(***************************************************************************)
\* variant: the commands after a failing command are not run
setBootOK_stops_at_failure(st) ==
  /\ pc = "idle"
  /\ IF rollback_mode \in RecognizedModes
       THEN LET steps == SetBootOKSteps(rollback_mode)
                ran == IF steps # <<>> /\ st[1] # 0 THEN SubSeq(steps, 1, 1) ELSE steps
            IN  Returns("setBootOK", [st |-> st], FALSE, FALSE,
                        Commands(ran), Failed(ran, st, 1), <<>>)
       ELSE Returns("setBootOK", [st |-> st], FALSE, TRUE, <<>>, <<>>, <<>>)
  /\ UNCHANGED <<rollback_mode, reboot_detect_supported, need_reboot, sentinel_exists,
                 pc, hist>>

\* variant: a failing command makes the call fail
setBootOK_throws_on_failure(st) ==
  /\ pc = "idle"
  /\ IF rollback_mode \in RecognizedModes
       THEN LET steps == SetBootOKSteps(rollback_mode)
            IN  Returns("setBootOK", [st |-> st], FALSE, Failed(steps, st, 1) # <<>>,
                        Commands(steps), Failed(steps, st, 1), <<>>)
       ELSE Returns("setBootOK", [st |-> st], FALSE, TRUE, <<>>, <<>>, <<>>)
  /\ UNCHANGED <<rollback_mode, reboot_detect_supported, need_reboot, sentinel_exists,
                 pc, hist>>

setBootOK(st) ==
  /\ pc = "idle"
  /\ IF rollback_mode \in RecognizedModes
       THEN LET steps == SetBootOKSteps(rollback_mode)
            IN  Returns("setBootOK", [st |-> st], FALSE, FALSE,
                        Commands(steps), Failed(steps, st, 1), <<>>)
       ELSE Returns("setBootOK", [st |-> st], FALSE, TRUE, <<>>, <<>>, <<>>)
  /\ UNCHANGED <<rollback_mode, reboot_detect_supported, need_reboot, sentinel_exists,
                 pc, hist>>

(***************************************************************************)
(* Bootloader::updateNotify                                                *)
(***************************************************************************)
\* variant: the call also stores the need-reboot flag
updateNotify_stores_flag(st) ==
  /\ pc = "idle"
  /\ IF rollback_mode \in RecognizedModes
       THEN LET steps == UpdateNotifySteps(rollback_mode)
            IN  Returns("updateNotify", [st |-> st], FALSE, FALSE,
                        Commands(steps), Failed(steps, st, 1), <<>>)
       ELSE Returns("updateNotify", [st |-> st], FALSE, TRUE, <<>>, <<>>, <<>>)
  /\ need_reboot' = TRUE
  /\ UNCHANGED <<rollback_mode, reboot_detect_supported, sentinel_exists, pc, hist>>

updateNotify(st) ==
  /\ pc = "idle"
  /\ IF rollback_mode \in RecognizedModes
       THEN LET steps == UpdateNotifySteps(rollback_mode)
            IN  Returns("updateNotify", [st |-> st], FALSE, FALSE,
                        Commands(steps), Failed(steps, st, 1), <<>>)
       ELSE Returns("updateNotify", [st |-> st], FALSE, TRUE, <<>>, <<>>, <<>>)
  /\ UNCHANGED <<rollback_mode, reboot_detect_supported, need_reboot, sentinel_exists,
                 pc, hist>>

(***************************************************************************)
(* Bootloader::installNotify.  version_file is the version file of the     *)
(* target, out is what the printenv command writes to sink, st the exit    *)
(* statuses of the two commands.                                           *)
(***************************************************************************)
\* variant: the switch has no default label, an unknown mode does nothing
installNotify_no_default(version_file, out, st) ==
  /\ pc = "idle"
  /\ LET in == [version_file |-> version_file, out |-> out, st |-> st]
         target_firmware_ver == TargetFirmwareVer(version_file)
         steps == InstallNotifySteps(rollback_mode)
         sink == out
         ran == IF sink # target_firmware_ver THEN steps ELSE SubSeq(steps, 1, 1)
     IN  CASE rollback_mode \in {kUbootMasked, kFioVB} ->
                Returns("installNotify", in, FALSE, FALSE,
                        Commands(ran), Failed(ran, st, 1), <<>>)
           [] OTHER ->
                Returns("installNotify", in, FALSE, FALSE, <<>>, <<>>, <<>>)
  /\ UNCHANGED <<rollback_mode, reboot_detect_supported, need_reboot, sentinel_exists,
                 pc, hist>>

installNotify(version_file, out, st) ==
  /\ pc = "idle"
  /\ LET in == [version_file |-> version_file, out |-> out, st |-> st]
         target_firmware_ver == TargetFirmwareVer(version_file)
         steps == InstallNotifySteps(rollback_mode)
         sink == out
         ran == IF sink # target_firmware_ver THEN steps ELSE SubSeq(steps, 1, 1)
     IN  CASE rollback_mode \in {kBootloaderNone, kUbootGeneric} ->
                Returns("installNotify", in, FALSE, FALSE, <<>>, <<>>, <<>>)
           [] rollback_mode \in {kUbootMasked, kFioVB} ->
                Returns("installNotify", in, FALSE, FALSE,
                        Commands(ran), Failed(ran, st, 1), <<>>)
           [] OTHER ->
                Returns("installNotify", in, FALSE, TRUE, <<>>, <<>>, <<>>)
  /\ UNCHANGED <<rollback_mode, reboot_detect_supported, need_reboot, sentinel_exists,
                 pc, hist>>

(***************************************************************************)
(* Bootloader::rebootDetected                                              *)
(***************************************************************************)
\* variant: the sentinel is not looked at
rebootDetected_ignores_sentinel ==
  /\ pc = "idle"
  /\ LET r == IF ~reboot_detect_supported THEN FALSE ELSE need_reboot
     IN  /\ Returns("rebootDetected", NoInput, r, FALSE, <<>>, <<>>, <<>>)
         /\ hist' = [hist EXCEPT
                       !.observed = @ \/ r,
                       !.sticky = IF ~r THEN @ ELSE IF @ = "no" THEN "once" ELSE "again"]
  /\ UNCHANGED <<rollback_mode, reboot_detect_supported, need_reboot, sentinel_exists, pc>>

\* variant: a detected reboot is acknowledged at once, the flag is cleared
rebootDetected_clears_flag ==
  /\ pc = "idle"
  /\ LET r == IF ~reboot_detect_supported THEN FALSE
              ELSE need_reboot /\ ~sentinel_exists
     IN  /\ Returns("rebootDetected", NoInput, r, FALSE, <<>>, <<>>, <<>>)
         /\ hist' = [hist EXCEPT
                       !.observed = @ \/ r,
                       !.sticky = IF ~r THEN @ ELSE IF @ = "no" THEN "once" ELSE "again"]
         /\ need_reboot' = IF r THEN FALSE ELSE need_reboot
  /\ UNCHANGED <<rollback_mode, reboot_detect_supported, sentinel_exists, pc>>

rebootDetected ==
  /\ pc = "idle"
  /\ LET r == IF ~reboot_detect_supported THEN FALSE
              ELSE need_reboot /\ ~sentinel_exists
     IN  /\ Returns("rebootDetected", NoInput, r, FALSE, <<>>, <<>>, <<>>)
         /\ hist' = [hist EXCEPT
                       !.observed = @ \/ r,
                       !.sticky = IF ~r THEN @ ELSE IF @ = "no" THEN "once" ELSE "again"]
  /\ UNCHANGED <<rollback_mode, reboot_detect_supported, need_reboot, sentinel_exists, pc>>

(***************************************************************************)
(* Bootloader::rebootFlagSet: the sentinel file is written, then the flag  *)
(* is stored.                                                              *)
(***************************************************************************)
\* variant: the two writes in the other order, the flag is stored first
rebootFlagSet_write_flag_first ==
  /\ pc = "idle"
  /\ Returns("rebootFlagSet", NoInput, FALSE, FALSE, <<>>, <<>>, <<>>)
  /\ IF ~reboot_detect_supported
       THEN UNCHANGED <<need_reboot, sentinel_exists, pc, hist>>
       ELSE /\ need_reboot' = TRUE
            /\ UNCHANGED sentinel_exists
            /\ pc' = "rebootFlagSet_store"
            /\ hist' = [hist EXCEPT !.fault = "none", !.trip = "none", !.sticky = "no",
                                 !.crossed = FALSE]
  /\ UNCHANGED <<rollback_mode, reboot_detect_supported>>

\* variant: the sentinel file is not written
rebootFlagSet_write_skips_sentinel ==
  /\ pc = "idle"
  /\ Returns("rebootFlagSet", NoInput, FALSE, FALSE, <<>>, <<>>, <<>>)
  /\ IF ~reboot_detect_supported
       THEN UNCHANGED <<pc, hist>>
       ELSE /\ pc' = "rebootFlagSet_store"
            /\ hist' = [hist EXCEPT !.fault = "none", !.trip = "none", !.sticky = "no",
                                 !.crossed = FALSE]
  /\ UNCHANGED <<rollback_mode, reboot_detect_supported, need_reboot, sentinel_exists>>

\* variant: the check of reboot_detect_supported_ is missing
rebootFlagSet_write_unguarded ==
  /\ pc = "idle"
  /\ Returns("rebootFlagSet", NoInput, FALSE, FALSE, <<>>, <<>>, <<>>)
  /\ sentinel_exists' = TRUE
  /\ pc' = "rebootFlagSet_store"
  /\ hist' = [hist EXCEPT !.fault = "none", !.trip = "none", !.sticky = "no",
                                 !.crossed = FALSE]
  /\ UNCHANGED <<rollback_mode, reboot_detect_supported, need_reboot>>

rebootFlagSet_write ==
  /\ pc = "idle"
  /\ Returns("rebootFlagSet", NoInput, FALSE, FALSE, <<>>, <<>>, <<>>)
  /\ IF ~reboot_detect_supported
       THEN UNCHANGED <<sentinel_exists, pc, hist>>
       ELSE /\ sentinel_exists' = TRUE
            /\ pc' = "rebootFlagSet_store"
            /\ hist' = [hist EXCEPT !.fault = "none", !.trip = "none", !.sticky = "no",
                                 !.crossed = FALSE]
  /\ UNCHANGED <<rollback_mode, reboot_detect_supported, need_reboot>>

rebootFlagSet_store ==
  /\ pc = "rebootFlagSet_store"
  /\ need_reboot' = TRUE
  /\ pc' = "idle"
  /\ hist' = [hist EXCEPT !.trip = "set", !.applied = TRUE,
                          !.observed = FALSE, !.cleared = FALSE]
  /\ UNCHANGED <<rollback_mode, reboot_detect_supported, sentinel_exists,
                 op, input, ret, raised, shell_log, warnings, os_log, pre>>

(***************************************************************************)
(* Bootloader::rebootFlagClear: the flag is cleared, then the sentinel     *)
(* file is removed.                                                        *)
(***************************************************************************)
\* variant: the two writes in the other order, the sentinel is removed first
rebootFlagClear_clear_sentinel_first ==
  /\ pc = "idle"
  /\ Returns("rebootFlagClear", NoInput, FALSE, FALSE, <<>>, <<>>, <<>>)
  /\ IF ~reboot_detect_supported
       THEN UNCHANGED <<sentinel_exists, pc, hist>>
       ELSE /\ sentinel_exists' = FALSE
            /\ pc' = "rebootFlagClear_remove"
            /\ hist' = [hist EXCEPT !.fault = "none", !.sticky = "no", !.crossed = FALSE]
  /\ UNCHANGED <<rollback_mode, reboot_detect_supported, need_reboot>>

rebootFlagClear_clear ==
  /\ pc = "idle"
  /\ Returns("rebootFlagClear", NoInput, FALSE, FALSE, <<>>, <<>>, <<>>)
  /\ IF ~reboot_detect_supported
       THEN UNCHANGED <<need_reboot, pc, hist>>
       ELSE /\ need_reboot' = FALSE
            /\ pc' = "rebootFlagClear_remove"
            /\ hist' = [hist EXCEPT !.fault = "none", !.cleared = TRUE, !.sticky = "no"]
  /\ UNCHANGED <<rollback_mode, reboot_detect_supported, sentinel_exists>>

\* variant: the sentinel file is not removed
rebootFlagClear_remove_keeps_sentinel ==
  /\ pc = "rebootFlagClear_remove"
  /\ pc' = "idle"
  /\ hist' = [hist EXCEPT !.trip = IF @ = "crossed" THEN "cleared" ELSE "none",
                          !.crossed = FALSE]
  /\ UNCHANGED <<rollback_mode, reboot_detect_supported, need_reboot, sentinel_exists,
                 op, input, ret, raised, shell_log, warnings, os_log, pre>>

rebootFlagClear_remove ==
  /\ pc = "rebootFlagClear_remove"
  /\ sentinel_exists' = FALSE
  /\ pc' = "idle"
  /\ hist' = [hist EXCEPT !.trip = IF @ = "crossed" THEN "cleared" ELSE "none",
                          !.crossed = FALSE]
  /\ UNCHANGED <<rollback_mode, reboot_detect_supported, need_reboot,
                 op, input, ret, raised, shell_log, warnings, os_log, pre>>

(***************************************************************************)
(* Bootloader::reboot.  setuid_ok tells whether setuid(0) returns 0, st is *)
(* the value system(reboot_command_) returns.                              *)
(***************************************************************************)
\* variant: the result of setuid(0) is not tested
reboot_ignores_setuid(fake_reboot, setuid_ok, st) ==
  /\ pc = "idle"
  /\ LET in == [fake_reboot |-> fake_reboot, setuid_ok |-> setuid_ok, st |-> st]
     IN  IF fake_reboot
           THEN /\ sentinel_exists' = FALSE
                /\ Returns("reboot", in, FALSE, FALSE, <<>>, <<>>, <<>>)
                /\ hist' = [hist EXCEPT
                              !.fault = "none",
                              !.crossed = TRUE,
                              !.trip = IF @ \in {"set", "crossed"} THEN "crossed" ELSE "none"]
           ELSE /\ Returns("reboot", in, FALSE, FALSE, <<>>,
                           IF st # 0 THEN <<"Failed to execute the reboot command">>
                           ELSE <<>>,
                           <<"setuid", "sync", "system">>)
                /\ UNCHANGED <<sentinel_exists, hist>>
  /\ UNCHANGED <<rollback_mode, reboot_detect_supported, need_reboot, pc>>

\* variant: the simulated reboot leaves the sentinel file where it is
reboot_keeps_sentinel(fake_reboot, setuid_ok, st) ==
  /\ pc = "idle"
  /\ LET in == [fake_reboot |-> fake_reboot, setuid_ok |-> setuid_ok, st |-> st]
     IN  /\ Returns("reboot", in, FALSE, FALSE, <<>>, <<>>,
                    IF fake_reboot THEN <<>>
                    ELSE IF setuid_ok THEN <<"setuid", "sync", "system">> ELSE <<"setuid">>)
         /\ hist' = IF fake_reboot
                      THEN [hist EXCEPT
                              !.fault = "none",
                              !.crossed = TRUE,
                              !.trip = IF @ \in {"set", "crossed"} THEN "crossed" ELSE "none"]
                      ELSE hist
  /\ UNCHANGED <<rollback_mode, reboot_detect_supported, need_reboot, sentinel_exists, pc>>

\* variant: the simulated reboot also clears the flag
reboot_clears_flag(fake_reboot, setuid_ok, st) ==
  /\ pc = "idle"
  /\ LET in == [fake_reboot |-> fake_reboot, setuid_ok |-> setuid_ok, st |-> st]
     IN  /\ Returns("reboot", in, FALSE, FALSE, <<>>, <<>>,
                    IF fake_reboot THEN <<>>
                    ELSE IF setuid_ok THEN <<"setuid", "sync", "system">> ELSE <<"setuid">>)
         /\ sentinel_exists' = IF fake_reboot THEN FALSE ELSE sentinel_exists
         /\ need_reboot' = IF fake_reboot THEN FALSE ELSE need_reboot
         /\ hist' = IF fake_reboot
                      THEN [hist EXCEPT
                              !.fault = "none",
                              !.crossed = TRUE,
                              !.trip = IF @ \in {"set", "crossed"} THEN "crossed" ELSE "none"]
                      ELSE hist
  /\ UNCHANGED <<rollback_mode, reboot_detect_supported, pc>>

reboot(fake_reboot, setuid_ok, st) ==
  /\ pc = "idle"
  /\ LET in == [fake_reboot |-> fake_reboot, setuid_ok |-> setuid_ok, st |-> st]
     IN  IF fake_reboot
           THEN /\ sentinel_exists' = FALSE
                /\ Returns("reboot", in, FALSE, FALSE, <<>>, <<>>, <<>>)
                /\ hist' = [hist EXCEPT
                              !.fault = "none",
                              !.crossed = TRUE,
                              !.trip = IF @ \in {"set", "crossed"} THEN "crossed" ELSE "none"]
           ELSE /\ IF ~setuid_ok
                     THEN Returns("reboot", in, FALSE, FALSE, <<>>,
                                  <<"Failed to set/verify a root user so cannot reboot system programmatically">>,
                                  <<"setuid">>)
                     ELSE Returns("reboot", in, FALSE, FALSE, <<>>,
                                  IF st # 0 THEN <<"Failed to execute the reboot command">>
                                  ELSE <<>>,
                                  <<"setuid", "sync", "system">>)
                /\ UNCHANGED <<sentinel_exists, hist>>
  /\ UNCHANGED <<rollback_mode, reboot_detect_supported, need_reboot, pc>>

(***************************************************************************)
(* The system.                                                             *)
(***************************************************************************)
Init ==
  /\ rollback_mode \in RollbackMode
  /\ reboot_detect_supported \in BOOLEAN
  /\ need_reboot = FALSE
  /\ sentinel_exists = FALSE
  /\ pc = "idle"
  /\ op = "Bootloader"
  /\ input = NoInput
  /\ ret = FALSE
  /\ raised = FALSE
  /\ shell_log = <<>>
  /\ warnings = IF reboot_detect_supported THEN <<>>
                ELSE <<"Could not create securely, reboot detection support disabled">>
  /\ os_log = <<>>
  /\ pre = [need_reboot |-> FALSE, sentinel_exists |-> FALSE]
  /\ hist = [trip |-> "none", fault |-> "none", fault_pre |-> FALSE,
             applied |-> FALSE, observed |-> FALSE, cleared |-> FALSE,
             crossed |-> FALSE, sticky |-> "no"]

Next ==
  \/ \E createSecureDirectory \in BOOLEAN : Bootloader(createSecureDirectory)
  \/ \E st \in [1..2 -> Statuses] : setBootOK(st)
  \/ \E st \in [1..3 -> Statuses] : updateNotify(st)
  \/ \E version_file \in VersionFiles, out \in ShellOutputs, st \in [1..2 -> Statuses] :
        installNotify(version_file, out, st)
  \/ rebootDetected
  \/ rebootFlagSet_write
  \/ rebootFlagSet_store
  \/ rebootFlagClear_clear
  \/ rebootFlagClear_remove
  \/ \E fake_reboot \in BOOLEAN, setuid_ok \in BOOLEAN, st \in Statuses :
        reboot(fake_reboot, setuid_ok, st)

Spec == Init /\ [][Next]_vars

(***************************************************************************)
(* Properties.                                                             *)
(***************************************************************************)

\* C1: whenever rebootDetected has just returned, its value is true exactly
\* when reboot detection is supported, the stored need-reboot flag is true and
\* the sentinel file does not exist; in every other combination it is false.
C1_RebootDetectedIff ==
  op = "rebootDetected" =>
    (ret <=> (reboot_detect_supported /\ need_reboot /\ ~sentinel_exists))

\* rebootDetected has returned true
C1_Witness ==
  /\ op = "rebootDetected"
  /\ ret
  /\ reboot_detect_supported /\ need_reboot /\ ~sentinel_exists

\* C2, as claimed: in the state a crash between the two writes of rebootFlagSet
\* or rebootFlagClear leaves (process restarted, storage and filesystem kept,
\* detection supported), rebootDetected is never true while the flag says no
\* update is pending, and never false while the flag says one is.
C2_AsClaimed ==
  (hist.fault # "none" /\ reboot_detect_supported /\ op = "rebootDetected") =>
    /\ (ret => need_reboot)
    /\ (need_reboot => ret)

\* C2, amended: in the state a crash between the two writes leaves,
\* rebootDetected returns false; the flag can be true there only after an
\* interrupted rebootFlagSet that was started with the flag already true.
C2_CrashReportsFalse ==
  (hist.fault # "none" /\ op = "rebootDetected") =>
    /\ ~ret
    /\ (need_reboot => (hist.fault = "set" /\ hist.fault_pre))

\* rebootDetected called in the state left by a crash of rebootFlagSet after
\* the sentinel was written and before the flag was stored
C2_Witness ==
  /\ hist.fault = "set"
  /\ op = "rebootDetected"
  /\ reboot_detect_supported
  /\ sentinel_exists /\ ~need_reboot

\* C3: with detection supported, rebootDetected returns false after a completed
\* rebootFlagSet with no boundary crossing since; it returns true once a
\* simulated reboot has removed the sentinel; and after the rebootFlagClear
\* that follows it returns false and the flag is false.
C3_RoundTrip ==
  /\ (op = "rebootDetected" /\ reboot_detect_supported) =>
        /\ (hist.trip = "set" => ~ret)
        /\ (hist.trip = "crossed" => ret)
        /\ (hist.trip = "cleared" => ~ret)
  /\ (hist.trip = "cleared" /\ pc = "idle") => ~need_reboot

\* the whole round trip was made and rebootDetected was asked at its end
C3_Witness ==
  /\ op = "rebootDetected"
  /\ reboot_detect_supported
  /\ hist.trip = "cleared"
  /\ hist.observed

\* C4: while detection is unsupported, rebootFlagSet and rebootFlagClear return
\* with the flag and the sentinel as they were, whatever they were, and
\* rebootDetected returns false.
C4_UnsupportedNoOps ==
  ~reboot_detect_supported =>
    /\ (op \in {"rebootFlagSet", "rebootFlagClear"} => (pc = "idle" /\ Snapshot = pre))
    /\ (op = "rebootDetected" => ~ret)

\* rebootFlagSet was called, unsupported, with the flag true and no sentinel
C4_Witness ==
  /\ ~reboot_detect_supported
  /\ op = "rebootFlagSet"
  /\ pre.need_reboot /\ ~pre.sentinel_exists

\* C5: after reboot(true), from any state, the sentinel does not exist, the
\* flag is what it was before the call, and neither setuid, sync, system nor
\* any shell command was called.
C5_FakeRebootFrame ==
  (op = "reboot" /\ input.fake_reboot) =>
    /\ ~sentinel_exists
    /\ need_reboot = pre.need_reboot
    /\ os_log = <<>>
    /\ shell_log = <<>>

\* reboot(true) was called with the flag true and the sentinel there
C5_Witness ==
  /\ op = "reboot" /\ input.fake_reboot
  /\ pre.need_reboot /\ pre.sentinel_exists
  /\ ~sentinel_exists

\* C6, as claimed: with detection supported, the flag is true exactly when
\* rebootFlagSet has stored it and rebootDetected has not returned true since.
C6_AsClaimed ==
  reboot_detect_supported => (need_reboot <=> (hist.applied /\ ~hist.observed))

\* C6, amended: with detection supported, the flag is true exactly when
\* rebootFlagSet has stored it and rebootFlagClear has not cleared it since;
\* a rebootDetected that returns true leaves the flag as it is.
C6_FlagUntilCleared ==
  reboot_detect_supported => (need_reboot <=> (hist.applied /\ ~hist.cleared))

\* the flag is still true after rebootDetected has returned true
C6_Witness ==
  /\ reboot_detect_supported
  /\ op = "rebootDetected" /\ ret
  /\ hist.applied /\ hist.observed /\ ~hist.cleared
  /\ need_reboot

\* C7: in each of the four recognized modes setBootOK and updateNotify return
\* without throwing, whatever the exit statuses of their commands.
C7_NeverFails ==
  (rollback_mode \in RecognizedModes /\ op \in {"setBootOK", "updateNotify"}) => ~raised

\* setBootOK returned although both of its commands failed
C7_Witness ==
  /\ op = "setBootOK"
  /\ rollback_mode = kFioVB
  /\ Len(shell_log) = 2 /\ Len(warnings) = 2
  /\ ~raised

\* C8: in a mode that is none of the four, setBootOK, updateNotify and
\* installNotify throw NotImplementedException and have run no command.
C8_UnrecognizedModeThrows ==
  (rollback_mode \notin RecognizedModes
     /\ op \in {"setBootOK", "updateNotify", "installNotify"}) =>
    (raised /\ shell_log = <<>>)

\* installNotify has thrown in an unrecognized mode, the version file being there
C8_Witness ==
  /\ rollback_mode = kUnrecognized
  /\ op = "installNotify"
  /\ input.version_file.exists
  /\ raised

\* the content of a version file without the first "bootfirmware_version" and
\* the character that follows it
KeyStripped(c) ==
  LET n == Len(version_flag)
      at == { i \in 1..Len(c) :
                /\ i + n - 1 <= Len(c)
                /\ \A k \in 1..n : c[i + k - 1] = version_flag[k] }
  IN  IF at = {} THEN c
      ELSE LET i == CHOOSE x \in at : \A y \in at : x <= y
               keep == { k \in 1..Len(c) : k < i \/ k > i + n }
           IN  [j \in 1..Cardinality(keep) |->
                  c[CHOOSE k \in keep : Cardinality({m \in keep : m <= k}) = j]]

\* how many times the command cmd was run by the last call
Times(cmd) == Cardinality({ i \in 1..Len(shell_log) : shell_log[i] = cmd })

\* the command that sets bootupgrade_available in a mode
SetBootUpgradeAvailable(mode) ==
  IF mode = kFioVB THEN "fiovb_setenv bootupgrade_available 1"
  ELSE "fw_setenv bootupgrade_available 1"

\* C9: installNotify on a target whose version file is there runs the command
\* that sets bootupgrade_available once if the mode is kUbootMasked or kFioVB
\* and the file content without its key differs from what printenv wrote, not
\* at all if the two are equal, and runs no command in the modes
\* kBootloaderNone and kUbootGeneric.
C9_SetOnceIfDiffers ==
  (op = "installNotify" /\ rollback_mode \in RecognizedModes /\ input.version_file.exists) =>
    IF rollback_mode \in {kUbootMasked, kFioVB}
      THEN /\ Times(SetBootUpgradeAvailable(rollback_mode)) =
                IF KeyStripped(input.version_file.content) # input.out THEN 1 ELSE 0
           /\ ~raised
      ELSE shell_log = <<>>

\* the file holds bootfirmware_version=2.1, printenv wrote 2.0, and the
\* command was run once
C9_Witness ==
  /\ op = "installNotify"
  /\ rollback_mode = kUbootMasked
  /\ input.version_file = [exists |-> TRUE, content |-> Keyed(<<"2", ".", "1">>)]
  /\ input.out = <<"2", ".", "0">>
  /\ Times("fw_setenv bootupgrade_available 1") = 1

\* C10, as claimed: when the version file of the target is missing,
\* installNotify runs no command and does not throw, in every recognized mode.
C10_AsClaimed ==
  (op = "installNotify" /\ rollback_mode \in RecognizedModes /\ ~input.version_file.exists) =>
    (shell_log = <<>> /\ ~raised)

\* C11, as claimed: in the modes kUbootMasked and kFioVB, when the version file
\* is missing or the printenv command returns non-zero, installNotify does not
\* set bootupgrade_available and returns without throwing.
C11_AsClaimed ==
  (op = "installNotify" /\ rollback_mode \in {kUbootMasked, kFioVB}
     /\ (~input.version_file.exists \/ input.st[1] # 0)) =>
    (Times(SetBootUpgradeAvailable(rollback_mode)) = 0 /\ ~raised)

\* C12: with detection supported, rebootFlagSet writes the sentinel before it
\* stores the flag: between the two writes, and in the state a crash between
\* them leaves, the sentinel exists and the flag is what it was when the call
\* started, so the flag is never true there with the sentinel missing; once
\* the call has returned the flag is true.
C12_SentinelBeforeFlag ==
  /\ pc = "rebootFlagSet_store" =>
        (sentinel_exists /\ need_reboot = pre.need_reboot)
  /\ hist.fault = "set" =>
        (sentinel_exists /\ need_reboot = hist.fault_pre)
  /\ (op = "rebootFlagSet" /\ pc = "idle" /\ reboot_detect_supported) => need_reboot

\* between the two writes of a rebootFlagSet that was started with the flag
\* true and no sentinel
C12_Witness ==
  /\ pc = "rebootFlagSet_store"
  /\ pre.need_reboot /\ ~pre.sentinel_exists
  /\ need_reboot /\ sentinel_exists

\* C13: with detection supported, rebootFlagClear clears the flag before it
\* removes the sentinel: between the two writes the flag is false and the
\* sentinel is as it was, and in the state a crash between them leaves the
\* flag is false and rebootDetected returns false.
C13_FlagBeforeSentinel ==
  /\ pc = "rebootFlagClear_remove" =>
        (~need_reboot /\ sentinel_exists = pre.sentinel_exists)
  /\ hist.fault = "clear" =>
        (~need_reboot /\ (op = "rebootDetected" => ~ret))
  /\ (op = "rebootFlagClear" /\ pc = "idle" /\ reboot_detect_supported) => ~sentinel_exists

\* rebootDetected asked after a crash of rebootFlagClear that left the sentinel
C13_Witness ==
  /\ hist.fault = "clear"
  /\ op = "rebootDetected"
  /\ reboot_detect_supported
  /\ sentinel_exists /\ ~need_reboot /\ ~ret

\* C14: the flag is true with the sentinel missing only after a simulated
\* reboot that came after the last write of the sentinel by rebootFlagSet and
\* its last removal by rebootFlagClear; so whatever calls of
\* rebootFlagSet, rebootFlagClear and rebootDetected are made, and wherever
\* the process crashes and restarts between their writes, "flag true implies
\* sentinel there" holds until such a boundary crossing, and rebootDetected
\* returns true only after one.
C14_TrueOnlyAfterCrossing ==
  /\ (need_reboot /\ ~sentinel_exists) => hist.crossed
  /\ (op = "rebootDetected" /\ ret) => hist.crossed

\* rebootFlagSet has returned after being called in a state that a crash
\* between two writes had left (flag false, sentinel there), no simulated
\* reboot having touched the sentinel since
C14_Witness ==
  /\ hist.applied /\ ~hist.cleared /\ ~hist.crossed
  /\ hist.trip = "set"
  /\ pre.sentinel_exists /\ ~pre.need_reboot
  /\ op = "rebootFlagSet" /\ pc = "idle"
  /\ need_reboot /\ sentinel_exists

\* C15: with detection supported and from any state, a rebootFlagSet that has
\* returned leaves the flag true and the sentinel there, a rebootFlagClear
\* that has returned leaves the flag false and no sentinel; calling either a
\* second time changes nothing.
C15_TogetherAndIdempotent ==
  (reboot_detect_supported /\ pc = "idle") =>
    /\ op = "rebootFlagSet" => (need_reboot /\ sentinel_exists)
    /\ op = "rebootFlagClear" => (~need_reboot /\ ~sentinel_exists)

\* rebootFlagClear has returned after being called in the state it leaves
C15_Witness ==
  /\ reboot_detect_supported /\ pc = "idle"
  /\ op = "rebootFlagClear"
  /\ hist.applied
  /\ ~pre.need_reboot /\ ~pre.sentinel_exists
  /\ ~need_reboot /\ ~sentinel_exists

\* C16: setBootOK runs, whatever the exit statuses, no command in the mode
\* kBootloaderNone, the bootcount reset in kUbootGeneric, the bootcount reset
\* and then the upgrade_available reset in kUbootMasked (fw_setenv) and in
\* kFioVB (fiovb_setenv), each once and in this order.
C16_SetBootOKCommands ==
  (op = "setBootOK" /\ rollback_mode \in RecognizedModes) =>
    shell_log =
      CASE rollback_mode = kBootloaderNone -> <<>>
        [] rollback_mode = kUbootGeneric -> <<"fw_setenv bootcount 0">>
        [] rollback_mode = kUbootMasked ->
             <<"fw_setenv bootcount 0", "fw_setenv upgrade_available 0">>
        [] rollback_mode = kFioVB ->
             <<"fiovb_setenv bootcount 0", "fiovb_setenv upgrade_available 0">>

\* setBootOK in the mode kUbootMasked, its first command failed and the second
\* was run all the same
C16_Witness ==
  /\ op = "setBootOK"
  /\ rollback_mode = kUbootMasked
  /\ input.st[1] # 0
  /\ warnings # <<>>
  /\ Len(shell_log) = 2

\* C17: updateNotify runs, whatever the exit statuses, no command in the mode
\* kBootloaderNone, bootcount 0 and rollback 0 in kUbootGeneric, and bootcount
\* 0, upgrade_available 1, rollback 0 in kUbootMasked (fw_setenv) and in
\* kFioVB (fiovb_setenv), each once and in this order; it never writes
\* upgrade_available 0 and ends with the rollback reset in every mode but
\* kBootloaderNone.
C17_UpdateNotifyCommands ==
  (op = "updateNotify" /\ rollback_mode \in RecognizedModes) =>
    /\ shell_log =
         CASE rollback_mode = kBootloaderNone -> <<>>
           [] rollback_mode = kUbootGeneric ->
                <<"fw_setenv bootcount 0", "fw_setenv rollback 0">>
           [] rollback_mode = kUbootMasked ->
                <<"fw_setenv bootcount 0", "fw_setenv upgrade_available 1",
                  "fw_setenv rollback 0">>
           [] rollback_mode = kFioVB ->
                <<"fiovb_setenv bootcount 0", "fiovb_setenv upgrade_available 1",
                  "fiovb_setenv rollback 0">>
    /\ Times("fw_setenv upgrade_available 0") = 0
    /\ Times("fiovb_setenv upgrade_available 0") = 0
    /\ rollback_mode # kBootloaderNone =>
         Times("fw_setenv rollback 0") + Times("fiovb_setenv rollback 0") = 1

\* updateNotify in the mode kFioVB, the first two commands failed and the
\* third was run all the same
C17_Witness ==
  /\ op = "updateNotify"
  /\ rollback_mode = kFioVB
  /\ input.st[1] # 0 /\ input.st[2] # 0
  /\ Len(shell_log) = 3
  /\ shell_log[3] = "fiovb_setenv rollback 0"

\* C18: reboot(false) calls setuid first; when that fails it returns without
\* calling sync or system; when it succeeds it calls sync, then system once,
\* and returns normally whatever system returns.  On every path the flag and
\* the sentinel are left as they were.
C18_RealReboot ==
  (op = "reboot" /\ ~input.fake_reboot) =>
    /\ os_log = IF input.setuid_ok THEN <<"setuid", "sync", "system">> ELSE <<"setuid">>
    /\ ~raised
    /\ pc = "idle"
    /\ Snapshot = pre

\* reboot(false) has returned although the reboot command failed, the flag
\* being true and the sentinel there
C18_Witness ==
  /\ op = "reboot" /\ ~input.fake_reboot
  /\ input.setuid_ok /\ input.st # 0
  /\ warnings # <<>>
  /\ need_reboot /\ sentinel_exists

\* C19: rebootDetected changes neither the flag nor the sentinel; once it has
\* returned true, every later rebootDetected returns true as well, whatever
\* calls of rebootDetected and simulated reboots lie between, until
\* rebootFlagSet or rebootFlagClear is called.
C19_PureAndSticky ==
  op = "rebootDetected" =>
    /\ Snapshot = pre
    /\ hist.sticky # "no" => ret

\* rebootDetected has returned true a second time, a simulated reboot having
\* been made at some time before
C19_Witness ==
  /\ op = "rebootDetected"
  /\ ret
  /\ hist.sticky = "again"
  /\ hist.crossed

\* C20: setBootOK, updateNotify and installNotify leave the flag and the
\* sentinel as they were, in every mode and whatever the commands return;
\* rebootFlagSet, rebootFlagClear, rebootDetected and reboot(true) run no
\* shell command.
C20_HalvesDoNotInterfere ==
  /\ op \in {"setBootOK", "updateNotify", "installNotify"} =>
        (Snapshot = pre /\ pc = "idle")
  /\ op \in {"rebootFlagSet", "rebootFlagClear", "rebootDetected"} => shell_log = <<>>
  /\ (op = "reboot" /\ input.fake_reboot) => shell_log = <<>>

\* updateNotify has run its three commands, two of them failing, with the
\* flag true and the sentinel there
C20_Witness ==
  /\ op = "updateNotify"
  /\ rollback_mode = kUbootMasked
  /\ Len(shell_log) = 3 /\ Len(warnings) = 2
  /\ need_reboot /\ sentinel_exists

=============================================================================
